---- MODULE Spec2Model ----
(***************************************************************************)
(* Model of link-preview-rs (src/main.rs): the metadata extractors, the    *)
(* URL helpers and the request handler `root` served by actix-web.         *)
(*                                                                         *)
(* Representation.                                                         *)
(*   - A host name is a sequence of one-character strings, so that         *)
(*     str::replace acts on characters as it does in the program.          *)
(*   - Any other string of the program (attribute values, element text,    *)
(*     URL references, selectors' values) is a sequence of lexical tokens  *)
(*     (Tok records): separators, scheme, host and plain segments.         *)
(*   - Option<T> is a sequence of length 0 (None) or 1 (Some(x)).          *)
(***************************************************************************)
EXTENDS Integers, Sequences, FiniteSets, TLC

VARIABLES
    inUrl,      \* argument `url` of the pure function under check
    inDom,      \* argument `dom` of the pure function under check
    out,        \* value returned by the pure function under check
    step,       \* "call" before the function ran, "done" after
    req,        \* per request: what the client sent (url parameter, User-Agent)
    pc,         \* per request: position in actix's dispatch and in `root`
    conn,       \* per request: the connection it was sent on (0: not sent)
    queue,      \* per connection: requests sent on it and not yet answered
    params,     \* per request: Option<Params>, the deserialized query
    sent,       \* per request: Option of the outbound fetch [url, ua]
    net,        \* per request: what the network answered to the fetch
    outcome     \* per request: how the request ended, with its Response

vars == <<inUrl, inDom, out, step, req, pc, conn, queue, params, sent, net, outcome>>
pureVars == <<inUrl, inDom, out, step>>
handlerVars == <<req, pc, conn, queue, params, sent, net, outcome>>

----------------------------------------------------------------------------
(* Option<T> *)

None == <<>>
Some(x) == <<x>>
IsSome(o) == Len(o) = 1
IsNone(o) == Len(o) = 0
Unwrap(o) == o[1]

----------------------------------------------------------------------------
(* Bounds *)

MaxHostLen == 6     \* longest enumerated host name, in characters
MaxDocLen == 2      \* most elements in an enumerated document
NumReqs == 2        \* requests a behaviour of the server receives
NumConns == 2       \* client connections a behaviour uses

----------------------------------------------------------------------------
(* Host names, character by character *)

HostAlphabet == {"w", ".", "a"}

WWW_DOT == <<"w", "w", "w", ".">>
EXAMPLE_COM == <<"e", "x", "a", "m", "p", "l", "e", ".", "c", "o", "m">>
WWW_EXAMPLE_COM == WWW_DOT \o EXAMPLE_COM
SHOP_WWW_EXAMPLE_COM == <<"s", "h", "o", "p", ".">> \o WWW_EXAMPLE_COM
CDN_EXAMPLE_COM == <<"c", "d", "n", ".">> \o EXAMPLE_COM

\* A host the url crate yields for an http(s) URL: non-empty labels, an
\* optional trailing dot.
WellFormedHost(h) ==
    /\ Len(h) > 0
    /\ h[1] # "."
    /\ \A i \in 1..(Len(h) - 1) : ~(h[i] = "." /\ h[i + 1] = ".")

SeqsUpTo(S, n) == UNION {[1..k -> S] : k \in 0..n}

Hosts ==
    {h \in SeqsUpTo(HostAlphabet, MaxHostLen) : WellFormedHost(h)}
        \cup {EXAMPLE_COM, WWW_EXAMPLE_COM, SHOP_WWW_EXAMPLE_COM}

----------------------------------------------------------------------------
(* url::Url, as far as the program reads it *)

Url(scheme, host, path) == [scheme |-> scheme, host |-> host, path |-> path]

\* Url::host_str
host_str(url) == url.host

\* str::replace(from, to): every non-overlapping match, left to right, in
\* one pass over the input.
RECURSIVE replace(_, _, _)
replace(s, from, to) ==
    IF Len(s) < Len(from) THEN s
    ELSE IF SubSeq(s, 1, Len(from)) = from
         THEN to \o replace(SubSeq(s, Len(from) + 1, Len(s)), from, to)
         ELSE <<s[1]>> \o replace(Tail(s), from, to)

\* main.rs:57 get_domain
get_domain(url) ==
    IF IsNone(host_str(url)) THEN None
    ELSE Some(replace(Unwrap(host_str(url)), WWW_DOT, <<>>))

----------------------------------------------------------------------------
(* Strings as token sequences *)

Tok(k, s, h) == [k |-> k, s |-> s, h |-> h]
Seg(s) == Tok("seg", s, <<>>)            \* a run of ordinary characters
Slash == Tok("/", "", <<>>)              \* "/"
DSlash == Tok("//", "", <<>>)            \* a leading "//"
Scheme(s) == Tok("scheme", s, <<>>)      \* "https:" and the like, leading
HostTok(h) == Tok("host", "", h)         \* the characters after "//"
Str(s) == <<Seg(s)>>                     \* a string of ordinary characters

\* Characters the URL syntax forbids in a domain.
ForbiddenHostChars == {" ", "<", ">", "^", "|"}

ValidDomain(h) == Len(h) > 0 /\ \A i \in 1..Len(h) : h[i] \notin ForbiddenHostChars

\* The path segments a token sequence spells: the runs between "/".
RECURSIVE SplitSegments(_)
SplitSegments(toks) ==
    IF toks = <<>> THEN <<"">>
    ELSE IF Head(toks).k = "/" THEN <<"">> \o SplitSegments(Tail(toks))
    ELSE IF Len(toks) = 1 THEN <<Head(toks).s>>
    ELSE <<Head(toks).s>> \o SplitSegments(Tail(Tail(toks)))

\* The URL path state: ".." shortens the path, "." is skipped, and either
\* of them in last position leaves an empty last segment.
RECURSIVE PushSegments(_, _)
PushSegments(path, segs) ==
    IF segs = <<>> THEN path
    ELSE LET s == Head(segs)
             last == Len(segs) = 1
             shorter == IF path = <<>> THEN path ELSE SubSeq(path, 1, Len(path) - 1)
             next == IF s = ".." THEN (IF last THEN Append(shorter, "") ELSE shorter)
                     ELSE IF s = "." THEN (IF last THEN Append(path, "") ELSE path)
                     ELSE Append(path, s)
         IN  PushSegments(next, Tail(segs))

\* After "//": a host, then an optional path. Err is None.
ParseAuthority(scheme, toks) ==
    IF toks = <<>> \/ Head(toks).k # "host" THEN None          \* EmptyHost
    ELSE IF ~ValidDomain(Head(toks).h) THEN None               \* InvalidDomainCharacter
    ELSE LET rest == Tail(toks)
             segs == IF rest = <<>> THEN <<"">> ELSE SplitSegments(Tail(rest))
         IN  Some(Url(scheme, Some(Head(toks).h), PushSegments(<<>>, segs)))

\* Schemes whose URLs carry an authority ("//host").
SpecialSchemes == {"http", "https"}

\* Url::cannot_be_a_base: no authority and an opaque path ("mailto:x").
cannot_be_a_base(url) == IsNone(url.host)

\* Url::parse: an absolute URL starts with a scheme; a reference without one
\* is Err(RelativeUrlWithoutBase). Result<Url, ParseError>, Err as None.
\* Inputs: scheme "//" authority, or a non-special scheme and an opaque path.
url_parse(input) ==
    IF input = <<>> \/ Head(input).k # "scheme" THEN None
    ELSE LET t == Head(input)
             rest == Tail(input)
         IN  CASE rest # <<>> /\ Head(rest).k = "//" -> ParseAuthority(t.s, Tail(rest))
               [] t.s \notin SpecialSchemes /\ (rest = <<>> \/ Head(rest).k = "seg") ->
                    Some(Url(t.s, None, SplitSegments(rest)))

\* Url::join: the reference is absolute, scheme-relative, path-absolute,
\* path-relative or empty. Result<Url, ParseError>, Err as None.
join(url, reference) ==
    IF reference # <<>> /\ Head(reference).k = "scheme" THEN url_parse(reference)
    ELSE IF cannot_be_a_base(url) THEN None       \* RelativeUrlWithCannotBeABaseBase
    ELSE IF reference = <<>> THEN Some(url)
    ELSE LET t == Head(reference)
             rest == Tail(reference)
         IN  CASE t.k = "//" -> ParseAuthority(url.scheme, rest)
               [] t.k = "/" ->
                    Some(Url(url.scheme, url.host,
                             PushSegments(<<>>, SplitSegments(rest))))
               [] t.k = "seg" ->
                    Some(Url(url.scheme, url.host,
                             PushSegments(SubSeq(url.path, 1, Len(url.path) - 1),
                                          SplitSegments(reference))))

\* Mutant of get_absolute_path: the reference parsed on its own, without
\* the page's URL as base.
get_absolute_path_NoBase(url, relative_path) == url_parse(relative_path)

\* main.rs:32 get_absolute_path: Result::ok
get_absolute_path(url, relative_path) == join(url, relative_path)

----------------------------------------------------------------------------
(* tl::VDom: the nodes of the parsed document, in document order *)

NoAttrs == <<>>

\* A tag node. attrs maps each attribute the tag carries to Option<value>:
\* None for an attribute written without a value.
Tag(name, attrs, children) ==
    [kind |-> "tag", name |-> name, attrs |-> attrs, children |-> children]
\* A raw text node.
Raw(text) ==
    [kind |-> "raw", name |-> "", attrs |-> NoAttrs, children |-> <<text>>]

\* A selector: a bare tag name, or tag[attr='value'].
Selector(name, attr, value) == [name |-> name, attr |-> attr, value |-> value]
TagSelector(name) == Selector(name, None, <<>>)
AttrSelector(name, attr, value) == Selector(name, Some(attr), value)

NodeMatches(node, sel) ==
    /\ node.kind = "tag"
    /\ node.name = sel.name
    /\ \/ IsNone(sel.attr)
       \/ /\ Unwrap(sel.attr) \in DOMAIN node.attrs
          /\ node.attrs[Unwrap(sel.attr)] = Some(sel.value)

\* The handles (positions) of the matching nodes from position i on.
RECURSIVE MatchesFrom(_, _, _)
MatchesFrom(dom, sel, i) ==
    IF i > Len(dom) THEN <<>>
    ELSE (IF NodeMatches(dom[i], sel) THEN <<i>> ELSE <<>>)
             \o MatchesFrom(dom, sel, i + 1)

\* VDom::query_selector: Option of an iterator over the matching handles.
query_selector(dom, sel) == Some(MatchesFrom(dom, sel, 1))

\* Iterator::next
next(iter) == IF iter = <<>> THEN None ELSE Some(Head(iter))

\* NodeHandle::get
get(handle, dom) == IF handle \in 1..Len(dom) THEN Some(dom[handle]) ELSE None

\* Attributes::get: Option<Option<value>>
attributes_get(tag, attr) ==
    IF attr \in DOMAIN tag.attrs THEN Some(tag.attrs[attr]) ELSE None

\* HTMLTag::inner_text: the text of the children, in order.
RECURSIVE Concat(_)
Concat(texts) == IF texts = <<>> THEN <<>> ELSE Head(texts) \o Concat(Tail(texts))
inner_text(tag) == Concat(tag.children)

----------------------------------------------------------------------------
(* The extractors *)

\* Mutant of attr_from_first_query_match: the first matching element that
\* carries a value for the attribute, instead of the first matching element.
RECURSIVE FirstValued(_, _, _)
FirstValued(dom, handles, attr) ==
    IF handles = <<>> THEN None
    ELSE LET tag == dom[Head(handles)] IN
         IF attr \in DOMAIN tag.attrs /\ IsSome(tag.attrs[attr])
         THEN Some(Unwrap(tag.attrs[attr]))
         ELSE FirstValued(dom, Tail(handles), attr)
attr_from_any_query_match(dom, query, attr) ==
    FirstValued(dom, MatchesFrom(dom, query, 1), attr)

\* main.rs:21 attr_from_first_query_match
attr_from_first_query_match(dom, query, attr) ==
    LET q == query_selector(dom, query) IN
    IF IsNone(q) THEN None ELSE
    LET handle == next(Unwrap(q)) IN
    IF IsNone(handle) THEN None ELSE
    LET node == get(Unwrap(handle), dom) IN
    IF IsNone(node) THEN None ELSE
    IF Unwrap(node).kind = "tag"
    THEN LET content == attributes_get(Unwrap(node), attr) IN
         IF IsNone(content) THEN None
         ELSE IF IsNone(Unwrap(content)) THEN None
         ELSE Some(Unwrap(Unwrap(content)))
    ELSE None

\* main.rs:36 title_from_title_tag
title_from_title_tag(dom) ==
    LET q == query_selector(dom, TagSelector("title")) IN
    IF IsNone(q) THEN None ELSE
    LET handle == next(Unwrap(q)) IN
    IF IsNone(handle) THEN None ELSE
    LET node == get(Unwrap(handle), dom) IN
    IF IsNone(node) THEN None ELSE
    IF Unwrap(node).kind = "tag" THEN Some(inner_text(Unwrap(node))) ELSE None

MetaProperty(p) == AttrSelector("meta", "property", Str(p))
LinkRelIcon == AttrSelector("link", "rel", Str("icon"))

\* Mutant of get_title: the <title> element first, og:title as fallback.
get_title_TagFirst(dom) ==
    LET title == title_from_title_tag(dom) IN
    IF IsSome(title) THEN title
    ELSE attr_from_first_query_match(dom, MetaProperty("og:title"), "content")

\* main.rs:46 get_title
get_title(dom) ==
    LET title == attr_from_first_query_match(dom, MetaProperty("og:title"), "content") IN
    IF IsSome(title) THEN title ELSE title_from_title_tag(dom)

\* main.rs:53 get_description
get_description(dom) ==
    attr_from_first_query_match(dom, MetaProperty("og:description"), "content")

\* main.rs:62 get_favicon
get_favicon(dom, url) ==
    LET favicon == attr_from_first_query_match(dom, LinkRelIcon, "href") IN
    IF IsNone(favicon) THEN None ELSE get_absolute_path(url, Unwrap(favicon))

\* main.rs:67 get_image
get_image(dom, url) ==
    LET image == attr_from_first_query_match(dom, MetaProperty("og:image"), "content") IN
    IF IsNone(image) THEN None ELSE get_absolute_path(url, Unwrap(image))

\* main.rs:72 get_og_url
get_og_url(dom) == attr_from_first_query_match(dom, MetaProperty("og:url"), "content")

\* main.rs:76 get_sitename
get_sitename(dom) ==
    attr_from_first_query_match(dom, MetaProperty("og:site_name"), "content")

\* main.rs:80 get_type
get_type(dom) == attr_from_first_query_match(dom, MetaProperty("og:type"), "content")

\* Mutant of Response: the domain taken from the page's og:url when it has
\* one that resolves.
ResponseDomainFromOgUrl(dom, url) ==
    LET page == IF IsSome(get_og_url(dom)) THEN join(url, Unwrap(get_og_url(dom))) ELSE None
    IN  [title |-> get_title(dom),
         description |-> get_description(dom),
         domain |-> IF IsSome(page) THEN get_domain(Unwrap(page)) ELSE get_domain(url),
         favicon |-> get_favicon(dom, url),
         image |-> get_image(dom, url),
         og_url |-> get_og_url(dom),
         sitename |-> get_sitename(dom),
         site_type |-> get_type(dom)]

\* main.rs:116-133: the Response `root` builds from the parsed document
Response(dom, url) ==
    [title |-> get_title(dom),
     description |-> get_description(dom),
     domain |-> get_domain(url),
     favicon |-> get_favicon(dom, url),
     image |-> get_image(dom, url),
     og_url |-> get_og_url(dom),
     sitename |-> get_sitename(dom),
     site_type |-> get_type(dom)]

----------------------------------------------------------------------------
(* Inputs of the pure-function specifications *)

\* An attribute in one of its three states: absent, written without a
\* value, written with a value.
Absent == None
Valueless == Some(None)
Valued(v) == Some(Some(v))
Attr(name, state) == IF IsNone(state) THEN NoAttrs ELSE name :> Unwrap(state)

Meta(property, content) ==
    Tag("meta", ("property" :> Some(Str(property))) @@ Attr("content", content), <<>>)
Link(rel, href) ==
    Tag("link", ("rel" :> Some(Str(rel))) @@ Attr("href", href), <<>>)
Title(children) == Tag("title", NoAttrs, children)

FAVICON_ICO == <<Slash, Seg("favicon.ico")>>                      \* "/favicon.ico"
IMG_COVER_PNG == <<Seg("img"), Slash, Seg("cover.png")>>          \* "img/cover.png"
CDN_I_PNG == <<DSlash, HostTok(CDN_EXAMPLE_COM), Slash, Seg("i.png")>>
UP_LOGO_PNG == <<Seg(".."), Slash, Seg("logo.png")>>              \* "../logo.png"
NO_HOST == <<DSlash>>                                             \* "//"
BAD_HOST == <<Scheme("https"), DSlash, HostTok(<<"a", " ", "b">>), Slash>>
OTHER_PAGE == <<Slash, Seg("other")>>                             \* "/other"
SHOP_PAGE == <<Scheme("https"), DSlash, HostTok(SHOP_WWW_EXAMPLE_COM), Slash, Seg("p")>>

BLOG_POST == Url("https", Some(EXAMPLE_COM), <<"blog", "post">>)  \* https://example.com/blog/post
WWW_ROOT == Url("https", Some(WWW_EXAMPLE_COM), <<"">>)           \* https://www.example.com/

Elems ==
    { Meta("og:title", Valued(Str("A"))), Meta("og:title", Absent),
      Meta("og:title", Valueless),
      Title(<<Str("B")>>), Title(<<Str("B"), Str("C")>>),
      Link("icon", Valued(FAVICON_ICO)), Link("icon", Absent),
      Link("icon", Valued(NO_HOST)), Link("stylesheet", Valued(FAVICON_ICO)),
      Meta("og:image", Valued(IMG_COVER_PNG)), Meta("og:image", Absent),
      Meta("og:image", Valued(CDN_I_PNG)), Meta("og:image", Valued(BAD_HOST)),
      Meta("og:image", Valued(UP_LOGO_PNG)),
      Meta("og:url", Valued(OTHER_PAGE)), Meta("og:url", Valueless),
      Meta("og:description", Valued(Str("D"))), Meta("og:description", Absent),
      Meta("og:site_name", Valued(Str("S"))), Meta("og:site_name", Absent),
      Meta("og:type", Valued(Str("T"))), Meta("og:type", Valueless),
      Raw(Str("B")) }

Docs == SeqsUpTo(Elems, MaxDocLen)
BaseUrls == {BLOG_POST, WWW_ROOT}
DomainUrls ==
    {Url("https", Some(h), <<"">>) : h \in Hosts} \cup {Url("mailto", None, <<"x">>)}

----------------------------------------------------------------------------
(* The pure-function specifications *)

HandlerIdle ==
    /\ req = [r \in 1..NumReqs |-> [url |-> None, ua |-> None]]
    /\ pc = [r \in 1..NumReqs |-> "new"]
    /\ conn = [r \in 1..NumReqs |-> 0]
    /\ queue = [c \in 1..NumConns |-> <<>>]
    /\ params = [r \in 1..NumReqs |-> None]
    /\ sent = [r \in 1..NumReqs |-> None]
    /\ net = [r \in 1..NumReqs |-> [send |-> "none", status |-> 0, text |-> "none",
                                    body |-> [oversize |-> FALSE, dom |-> <<>>]]]
    /\ outcome = [r \in 1..NumReqs |-> [kind |-> "none", body |-> None]]

InitDomain ==
    /\ inUrl \in DomainUrls
    /\ inDom = <<>>
    /\ out = None
    /\ step = "call"
    /\ HandlerIdle

\* get_domain(&params.url)
CallGetDomain ==
    /\ step = "call"
    /\ out' = get_domain(inUrl)
    /\ step' = "done"
    /\ UNCHANGED <<inUrl, inDom>>
    /\ UNCHANGED handlerVars

NextDomain == CallGetDomain
SpecDomain == InitDomain /\ [][NextDomain]_vars

InitExtract ==
    /\ inUrl \in BaseUrls
    /\ inDom \in Docs
    /\ out = None
    /\ step = "call"
    /\ HandlerIdle

\* The eight extractors over one document and one target URL.
CallExtract ==
    /\ step = "call"
    /\ out' = Some(Response(inDom, inUrl))
    /\ step' = "done"
    /\ UNCHANGED <<inUrl, inDom>>
    /\ UNCHANGED handlerVars

NextExtract == CallExtract
SpecExtract == InitExtract /\ [][NextExtract]_vars

----------------------------------------------------------------------------
(* The server: actix-web's dispatch of `root`, one task per connection *)

Reqs == 1..NumReqs
Conns == 1..NumConns

\* main.rs:13 APP_USER_AGENT, as bytes
APP_USER_AGENT ==
    <<
       77, 111, 122, 105, 108, 108, 97, 47, 53, 46, 48, 32, 40, 88, 49, 49,
       59, 32, 76, 105, 110, 117, 120, 32, 105, 54, 56, 54, 59, 32, 114, 118,
       58, 49, 49, 50, 46, 48, 41, 32, 71, 101, 99, 107, 111, 47, 50, 48,
       49, 48, 48, 49, 48, 49, 32, 70, 105, 114, 101, 102, 111, 120, 47, 49,
       49, 50, 46, 48
    >>

\* HeaderValue::to_str: Ok only when every byte is visible ASCII or a tab.
to_str(val) ==
    IF \A i \in 1..Len(val) : val[i] = 9 \/ (val[i] >= 32 /\ val[i] < 127)
    THEN Some(val) ELSE None

\* main.rs:99-102: the user agent of the outbound fetch; None where
\* to_str().unwrap() panics.
user_agent_of(header) ==
    IF IsNone(header) THEN Some(APP_USER_AGENT) ELSE to_str(Unwrap(header))

\* Mutant of DeserializeParams: a `url` that is not absolute is resolved
\* against a default base instead of being refused.
DeserializeParamsLenient(raw) ==
    IF IsNone(raw) THEN None
    ELSE IF IsSome(url_parse(Unwrap(raw))) THEN url_parse(Unwrap(raw))
    ELSE join(BLOG_POST, Unwrap(raw))

\* main.rs:16-19 Params, deserialized by web::Query: the `url` field must be
\* there and must parse as an absolute URL.
DeserializeParams(raw) == IF IsNone(raw) THEN None ELSE url_parse(Unwrap(raw))

\* tl::parse: Err only for an input longer than the parser can index.
tl_parse(content) == IF content.oversize THEN None ELSE Some(content.dom)

\* Mutant of RootFinish: the favicon is unwrapped, so a page without a
\* resolvable icon panics.
RootFinishUnwrapFavicon(url, content) ==
    IF IsNone(tl_parse(content)) THEN None
    ELSE IF IsNone(get_favicon(Unwrap(tl_parse(content)), url)) THEN None
    ELSE Some(Response(Unwrap(tl_parse(content)), url))

\* main.rs:115-133: parse the body and answer; None where unwrap() panics.
RootFinish(url, content) ==
    IF IsNone(tl_parse(content)) THEN None
    ELSE Some(Response(Unwrap(tl_parse(content)), url))

\* What clients send.
UA_CURL == <<99, 117, 114, 108>>        \* "curl"
UA_LATIN1 == <<99, 97, 102, 233>>       \* "caf\xE9": a byte that is not ASCII

URL_BLOG_POST ==
    <<Scheme("https"), DSlash, HostTok(EXAMPLE_COM), Slash, Seg("blog"), Slash, Seg("post")>>
URL_WWW_ROOT == <<Scheme("https"), DSlash, HostTok(WWW_EXAMPLE_COM), Slash>>
URL_RELATIVE == <<Seg("blog"), Slash, Seg("post")>>
Request(url, ua) == [url |-> url, ua |-> ua]
Requests ==
    { Request(None, None), Request(Some(URL_RELATIVE), Some(UA_CURL)),
      Request(Some(URL_BLOG_POST), Some(UA_CURL)),
      Request(Some(URL_BLOG_POST), Some(UA_LATIN1)), Request(Some(URL_WWW_ROOT), None) }

\* What target sites answer.
PLAIN_DOC == <<Raw(Str("B")), Link("stylesheet", Valued(FAVICON_ICO))>>
FULL_DOC ==
    <<Meta("og:title", Valued(Str("A"))), Title(<<Str("B")>>),
      Link("icon", Valued(FAVICON_ICO)), Meta("og:image", Valued(IMG_COVER_PNG)),
      Meta("og:url", Valued(SHOP_PAGE)), Meta("og:description", Valued(Str("D"))),
      Meta("og:site_name", Valued(Str("S"))), Meta("og:type", Valued(Str("T")))>>
PARTIAL_DOC ==
    <<Title(<<Str("B")>>), Link("icon", Valued(NO_HOST)), Meta("og:image", Absent),
      Meta("og:url", Valued(OTHER_PAGE))>>
Body(oversize, dom) == [oversize |-> oversize, dom |-> dom]
Statuses == {200, 404}
\* A 404 comes with the site's error page.
Bodies(status) ==
    IF status = 200
    THEN {Body(TRUE, <<>>), Body(FALSE, PLAIN_DOC), Body(FALSE, FULL_DOC),
          Body(FALSE, PARTIAL_DOC)}
    ELSE {Body(FALSE, PLAIN_DOC)}

Init ==
    /\ inUrl = BLOG_POST
    /\ inDom = <<>>
    /\ out = None
    /\ step = "idle"
    /\ HandlerIdle

\* main.rs:153-166: the server accepts a request on a keep-alive connection.
\* Requests are numbered in order of arrival and connections in order of
\* first use. A connection's requests are answered one at a time, in order.
Arrive(r, c, request) ==
    /\ pc[r] = "new"
    /\ IF r = 1 THEN TRUE ELSE pc[r - 1] # "new"
    /\ IF c = 1 THEN TRUE ELSE \E q \in Reqs : conn[q] = c - 1
    /\ req' = [req EXCEPT ![r] = request]
    /\ conn' = [conn EXCEPT ![r] = c]
    /\ queue' = [queue EXCEPT ![c] = Append(@, r)]
    /\ pc' = [pc EXCEPT ![r] = "queued"]
    /\ UNCHANGED <<params, sent, net, outcome>>
    /\ UNCHANGED pureVars

\* The request is answered: the connection's task turns to the next one.
Answered(r, kind, body) ==
    /\ outcome' = [outcome EXCEPT ![r] = [kind |-> kind, body |-> body]]
    /\ pc' = [pc EXCEPT ![r] = "done"]
    /\ queue' = [queue EXCEPT ![conn[r]] = Tail(@)]

\* An unwrap() of `root` panics: the panic unwinds through the task that
\* serves the connection, which closes it without an answer, and the
\* requests waiting on that connection are never answered.
Panicked(r) ==
    LET waiting == {queue[conn[r]][i] : i \in 2..Len(queue[conn[r]])} IN
    /\ outcome' = [q \in Reqs |->
                     IF q = r THEN [kind |-> "Panic", body |-> None]
                     ELSE IF q \in waiting THEN [kind |-> "Dropped", body |-> None]
                     ELSE outcome[q]]
    /\ pc' = [q \in Reqs |-> IF q = r \/ q \in waiting THEN "done" ELSE pc[q]]
    /\ queue' = [queue EXCEPT ![conn[r]] = <<>>]

\* main.rs:98: web::Query<Params> is extracted before `root` runs; on Err
\* actix answers 400 Bad Request and `root` is not called.
ExtractParams(r) ==
    /\ pc[r] = "queued"
    /\ Head(queue[conn[r]]) = r
    /\ LET p == DeserializeParams(req[r].url) IN
       IF IsNone(p)
       THEN /\ Answered(r, "InvalidInput", None)
            /\ UNCHANGED params
       ELSE /\ params' = [params EXCEPT ![r] = p]
            /\ pc' = [pc EXCEPT ![r] = "root"]
            /\ UNCHANGED <<queue, outcome>>
    /\ UNCHANGED <<req, conn, sent, net>>
    /\ UNCHANGED pureVars

\* main.rs:99-113: user agent, client, and the GET up to send().await
RootSend(r) ==
    /\ pc[r] = "root"
    /\ LET ua == user_agent_of(req[r].ua) IN
       IF IsNone(ua)
       THEN /\ Panicked(r)
            /\ UNCHANGED sent
       ELSE /\ sent' = [sent EXCEPT ![r] = Some([url |-> Unwrap(params[r]), ua |-> Unwrap(ua)])]
            /\ pc' = [pc EXCEPT ![r] = "send"]
            /\ UNCHANGED <<queue, outcome>>
    /\ UNCHANGED <<req, conn, params, net>>
    /\ UNCHANGED pureVars

\* main.rs:113: send().await.unwrap(). Err is a connection or DNS error;
\* a response of any status is Ok.
SendReturns(r, ok, status) ==
    /\ pc[r] = "send"
    /\ IF ok
       THEN /\ net' = [net EXCEPT ![r].send = "ok", ![r].status = status]
            /\ pc' = [pc EXCEPT ![r] = "text"]
            /\ UNCHANGED <<queue, outcome>>
       ELSE /\ net' = [net EXCEPT ![r].send = "err"]
            /\ Panicked(r)
    /\ UNCHANGED <<req, conn, params, sent>>
    /\ UNCHANGED pureVars

\* main.rs:114-133: text().await.unwrap(), then parse, extract and answer
TextReturns(r, ok, content) ==
    /\ pc[r] = "text"
    /\ IF ok
       THEN /\ net' = [net EXCEPT ![r].text = "ok", ![r].body = content]
            /\ LET res == RootFinish(Unwrap(params[r]), content) IN
               IF IsNone(res) THEN Panicked(r) ELSE Answered(r, "Ok", res)
       ELSE /\ net' = [net EXCEPT ![r].text = "err"]
            /\ Panicked(r)
    /\ UNCHANGED <<req, conn, params, sent>>
    /\ UNCHANGED pureVars

Next ==
    \/ \E r \in Reqs, c \in Conns, request \in Requests : Arrive(r, c, request)
    \/ \E r \in Reqs : ExtractParams(r)
    \/ \E r \in Reqs : RootSend(r)
    \/ \E r \in Reqs, status \in Statuses : SendReturns(r, TRUE, status)
    \/ \E r \in Reqs : SendReturns(r, FALSE, 0)
    \/ \E r \in Reqs : \E content \in Bodies(net[r].status) : TextReturns(r, TRUE, content)
    \/ \E r \in Reqs : TextReturns(r, FALSE, Body(FALSE, <<>>))

Spec == Init /\ [][Next]_vars

----------------------------------------------------------------------------
(* Vocabulary of the claims, stated on the document and not on the code *)

StartsWith(s, p) == Len(s) >= Len(p) /\ SubSeq(s, 1, Len(p)) = p

IsElement(n, name, attr, value) ==
    /\ n.kind = "tag"
    /\ n.name = name
    /\ attr \in DOMAIN n.attrs
    /\ n.attrs[attr] = Some(Str(value))
IsTitleElement(n) == n.kind = "tag" /\ n.name = "title"
HasValue(n, attr) == attr \in DOMAIN n.attrs /\ IsSome(n.attrs[attr])

\* The positions of a document's elements of one kind, and the first of them.
ElementsAt(dom, name, attr, value) ==
    {i \in 1..Len(dom) : IsElement(dom[i], name, attr, value)}
TitlesAt(dom) == {i \in 1..Len(dom) : IsTitleElement(dom[i])}
First(S) == CHOOSE i \in S : \A j \in S : i <= j

\* The first element of the kind exists and carries a value for attr /
\* exists and carries none.
FirstHasValue(dom, name, attr, value, a) ==
    /\ ElementsAt(dom, name, attr, value) # {}
    /\ HasValue(dom[First(ElementsAt(dom, name, attr, value))], a)
FirstLacksValue(dom, name, attr, value, a) ==
    /\ ElementsAt(dom, name, attr, value) # {}
    /\ ~HasValue(dom[First(ElementsAt(dom, name, attr, value))], a)
FirstValue(dom, name, attr, value, a) ==
    Unwrap(dom[First(ElementsAt(dom, name, attr, value))].attrs[a])
SomeHasValue(dom, name, attr, value, a) ==
    \E i \in ElementsAt(dom, name, attr, value) : HasValue(dom[i], a)

\* The text of the first <title> element, or None without one.
FirstTitleText(dom) ==
    IF TitlesAt(dom) = {} THEN None
    ELSE Some(Concat(dom[First(TitlesAt(dom))].children))

\* A reference that names an authority whose host is missing or malformed.
Unresolvable(ref) ==
    LET rest == IF ref # <<>> /\ ref[1].k = "scheme" THEN Tail(ref) ELSE ref IN
    /\ rest # <<>>
    /\ rest[1].k = "//"
    /\ \/ Len(rest) = 1
       \/ rest[2].k # "host"
       \/ rest[2].h = <<>>
       \/ \E i \in 1..Len(rest[2].h) : rest[2].h[i] \in ForbiddenHostChars

IsAbsoluteUrl(u) == u.scheme # "" /\ IsSome(u.host)

----------------------------------------------------------------------------
(* Claims about the pure functions *)

\* C1: get_domain removes the literal prefix "www." only when the host
\* starts with it, and removes nothing else: the result is the host without
\* its first four characters if it starts with "www.", and the host
\* unchanged otherwise.
C1_StripsLeadingWwwOnly ==
    (step = "done" /\ IsSome(inUrl.host)) =>
        LET h == Unwrap(inUrl.host) IN
        out = Some(IF StartsWith(h, WWW_DOT) THEN SubSeq(h, 5, Len(h)) ELSE h)

ResolvedField(ref, val) ==
    /\ IsNone(val) <=> (IsNone(ref) \/ Unresolvable(Unwrap(ref)))
    /\ IsSome(val) =>
           /\ IsAbsoluteUrl(Unwrap(val))
           /\ val = join(inUrl, Unwrap(ref))
    /\ (inUrl = BLOG_POST /\ ref = Some(FAVICON_ICO)) =>
           val = Some(Url("https", Some(EXAMPLE_COM), <<"favicon.ico">>))
    /\ (inUrl = BLOG_POST /\ ref = Some(IMG_COVER_PNG)) =>
           val = Some(Url("https", Some(EXAMPLE_COM), <<"blog", "img", "cover.png">>))

ReferenceOf(dom, name, attr, value, a) ==
    IF FirstHasValue(dom, name, attr, value, a)
    THEN Some(FirstValue(dom, name, attr, value, a)) ELSE None

\* C8: favicon and image are the href of link[rel='icon'] and the content of
\* meta[property='og:image'] resolved against the target URL: when present
\* the field is an absolute URL, the resolution of the reference (base
\* https://example.com/blog/post gives https://example.com/favicon.ico for
\* "/favicon.ico" and https://example.com/blog/img/cover.png for
\* "img/cover.png"); it is None exactly when the attribute is absent or the
\* reference cannot be resolved.
C8_FaviconAndImageResolved ==
    step = "done" =>
        /\ ResolvedField(ReferenceOf(inDom, "link", "rel", "icon", "href"),
                         Unwrap(out).favicon)
        /\ ResolvedField(ReferenceOf(inDom, "meta", "property", "og:image", "content"),
                         Unwrap(out).image)

\* C8 witness: the two examples of the claim, on one page.
C8_Witness ==
    /\ step = "done"
    /\ inUrl = BLOG_POST
    /\ ReferenceOf(inDom, "link", "rel", "icon", "href") = Some(FAVICON_ICO)
    /\ ReferenceOf(inDom, "meta", "property", "og:image", "content") = Some(IMG_COVER_PNG)
    /\ Unwrap(out).favicon = Some(Url("https", Some(EXAMPLE_COM), <<"favicon.ico">>))
    /\ Unwrap(out).image =
           Some(Url("https", Some(EXAMPLE_COM), <<"blog", "img", "cover.png">>))

\* C10: every attribute-based extractor looks only at the first element
\* matching its selector: when that element carries no value for the
\* attribute the field is None, whatever later matching elements carry, and
\* title then falls back to the <title> element.
C10_FirstMatchOnly ==
    step = "done" =>
        LET r == Unwrap(out) IN
        /\ FirstLacksValue(inDom, "meta", "property", "og:title", "content") =>
               r.title = FirstTitleText(inDom)
        /\ FirstLacksValue(inDom, "meta", "property", "og:description", "content") =>
               r.description = None
        /\ FirstLacksValue(inDom, "link", "rel", "icon", "href") => r.favicon = None
        /\ FirstLacksValue(inDom, "meta", "property", "og:image", "content") =>
               r.image = None
        /\ FirstLacksValue(inDom, "meta", "property", "og:url", "content") =>
               r.og_url = None
        /\ FirstLacksValue(inDom, "meta", "property", "og:site_name", "content") =>
               r.sitename = None
        /\ FirstLacksValue(inDom, "meta", "property", "og:type", "content") =>
               r.site_type = None

\* C10 witness: the first og:title element has no content, a later one has,
\* and title is None.
C10_Witness ==
    /\ step = "done"
    /\ FirstLacksValue(inDom, "meta", "property", "og:title", "content")
    /\ SomeHasValue(inDom, "meta", "property", "og:title", "content")
    /\ Unwrap(out).title = None

----------------------------------------------------------------------------
(* Claims about the server *)

\* The `url` parameter is there and spells an absolute URL.
AbsoluteUrlParam(raw) ==
    /\ IsSome(raw)
    /\ Unwrap(raw) # <<>>
    /\ Unwrap(raw)[1].k = "scheme"
    /\ ~Unresolvable(Unwrap(raw))

\* The outbound fetch did not complete successfully.
FetchFailed(r) ==
    \/ net[r].send = "err"
    \/ net[r].send = "ok" /\ net[r].status \notin 200..299

\* The fetch succeeded and the body was read and parsed.
FetchedAndParsed(r) ==
    /\ net[r].send = "ok"
    /\ net[r].status \in 200..299
    /\ net[r].text = "ok"
    /\ ~net[r].body.oversize

\* C2: when the outbound fetch fails (connection or DNS error, or a non-2xx
\* response), the request ends with a FetchFailure error value and no
\* Response; the handler neither panics nor parses the failed response.
C2_FetchFailureReported ==
    \A r \in Reqs :
        (FetchFailed(r) /\ pc[r] = "done") =>
            /\ outcome[r].kind = "FetchFailure"
            /\ IsNone(outcome[r].body)

C3_Rejected ==
    \A r \in Reqs :
        /\ IsSome(sent[r]) => (AbsoluteUrlParam(req[r].url) /\ IsSome(params[r]))
        /\ (~AbsoluteUrlParam(req[r].url) /\ pc[r] \notin {"new", "queued"}) =>
               /\ pc[r] = "done"
               /\ outcome[r].kind \in {"InvalidInput", "Dropped"}
               /\ IsNone(params[r])
               /\ IsNone(sent[r])
               /\ net[r].send = "none"
C3_FetchAfterParse ==
    \A r \in Reqs :
        (IsNone(sent[r]) /\ IsSome(sent'[r])) =>
            /\ AbsoluteUrlParam(req[r].url)
            /\ IsSome(params[r])
            /\ Unwrap(sent'[r]).url = Unwrap(params[r])

AloneOutcome(request, answer) ==
    LET p == DeserializeParams(request.url)
        panic == [kind |-> "Panic", body |-> None]
        waiting == [kind |-> "none", body |-> None]
    IN  IF IsNone(p) THEN [kind |-> "InvalidInput", body |-> None]
        ELSE IF IsNone(user_agent_of(request.ua)) THEN panic
        ELSE IF answer.send = "none" THEN waiting
        ELSE IF answer.send = "err" THEN panic
        ELSE IF answer.text = "none" THEN waiting
        ELSE IF answer.text = "err" THEN panic
        ELSE IF IsNone(RootFinish(Unwrap(p), answer.body)) THEN panic
        ELSE [kind |-> "Ok", body |-> RootFinish(Unwrap(p), answer.body)]

\* C4: one failing request never affects another: under every interleaving
\* each request ends with the outcome it would have had alone.
C4_RequestsIsolated ==
    \A r \in Reqs : pc[r] = "done" => outcome[r] = AloneOutcome(req[r], net[r])

\* A document with none of the tags the extractors look for.
NoExpectedTags(dom) ==
    \A i \in 1..Len(dom) :
        dom[i].kind = "tag" =>
            /\ dom[i].name # "title"
            /\ dom[i].name # "meta"
            /\ ~IsElement(dom[i], "link", "rel", "icon")

\* C6: once the fetch succeeded and the body parsed, the request ends with a
\* Response whatever the document holds: a missing element, a missing
\* attribute or an unresolvable reference makes that one field None, and a
\* document with none of the expected tags gives None for every field
\* derived from the document.
C6_ExtractionNeverFails ==
    \A r \in Reqs :
        FetchedAndParsed(r) =>
            /\ pc[r] = "done"
            /\ outcome[r].kind = "Ok"
            /\ IsSome(outcome[r].body)
            /\ LET dom == net[r].body.dom
                   resp == Unwrap(outcome[r].body)
                   icon == ReferenceOf(dom, "link", "rel", "icon", "href")
                   image == ReferenceOf(dom, "meta", "property", "og:image", "content")
               IN  /\ (IsNone(icon) \/ Unresolvable(Unwrap(icon))) => resp.favicon = None
                   /\ (IsNone(image) \/ Unresolvable(Unwrap(image))) => resp.image = None
                   /\ ElementsAt(dom, "meta", "property", "og:title") = {} =>
                          resp.title = FirstTitleText(dom)
                   /\ ElementsAt(dom, "meta", "property", "og:description") = {} =>
                          resp.description = None
                   /\ NoExpectedTags(dom) =>
                          /\ resp.title = None
                          /\ resp.description = None
                          /\ resp.favicon = None
                          /\ resp.image = None
                          /\ resp.og_url = None
                          /\ resp.sitename = None
                          /\ resp.site_type = None

\* C6 witness: a page whose icon does not resolve and whose og:image has no
\* content was answered with a Response, both fields None, title present.
C6_Witness ==
    \E r \in Reqs :
        /\ FetchedAndParsed(r)
        /\ net[r].body.dom = PARTIAL_DOC
        /\ outcome[r].kind = "Ok"
        /\ Unwrap(outcome[r].body).favicon = None
        /\ Unwrap(outcome[r].body).image = None
        /\ Unwrap(outcome[r].body).title = Some(Str("B"))

\* C7: the outbound fetch of every request that reaches the handler carries
\* that request's own User-Agent header verbatim, or the default string when
\* it has none; no header value makes the handler fail instead.
C7_UserAgentForwarded ==
    \A r \in Reqs :
        (IsSome(params[r]) /\ pc[r] # "root") =>
            /\ IsSome(sent[r])
            /\ Unwrap(sent[r]).ua =
                   (IF IsNone(req[r].ua) THEN APP_USER_AGENT ELSE Unwrap(req[r].ua))

\* C9: the domain field depends on the target URL alone: two requests for
\* the same target URL get the same domain, whatever their documents and
\* the og:url in them.
C9_DomainFromTargetOnly ==
    \A r, q \in Reqs :
        (outcome[r].kind = "Ok" /\ outcome[q].kind = "Ok" /\ params[r] = params[q]) =>
            Unwrap(outcome[r].body).domain = Unwrap(outcome[q].body).domain

\* C9 witness: two answered requests for one target URL whose documents
\* carry different og:url values, with the same domain.
C9_Witness ==
    \E r, q \in Reqs :
        /\ outcome[r].kind = "Ok"
        /\ outcome[q].kind = "Ok"
        /\ params[r] = params[q]
        /\ IsSome(Unwrap(outcome[r].body).og_url)
        /\ IsSome(Unwrap(outcome[q].body).og_url)
        /\ Unwrap(outcome[r].body).og_url # Unwrap(outcome[q].body).og_url
        /\ Unwrap(outcome[r].body).domain = Unwrap(outcome[q].body).domain

====
